---------------------------- MODULE Spec2Model ----------------------------
(***************************************************************************)
(* A model of vermion-common's DatabaseManager (src/database.py): the      *)
(* process-wide singleton and its connection pool, and the storage         *)
(* operations built on it.                                                 *)
(*                                                                         *)
(* Request handlers are threads.  Every operation is the sequence of its   *)
(* steps: _get_connection, its SQL statements, commit, and the             *)
(* _return_connection of its finally block.  The store is PostgreSQL at    *)
(* its default isolation level (READ COMMITTED): a statement reads what is *)
(* committed plus its own transaction's writes, a write waits while        *)
(* another open transaction holds the row, and the writes of a transaction *)
(* become visible at its commit.  psycopg2's pool rolls an open            *)
(* transaction back when the connection is put back.                       *)
(*                                                                         *)
(* A list returned by an operation is modelled as the set of its rows      *)
(* (ORDER BY is left out).                                                 *)
(***************************************************************************)
EXTENDS Integers, Sequences, FiniteSets, TLC

(***************************************************************************)
(* Bounds of the model.                                                    *)
(***************************************************************************)
NumThreads == 2
NumUsers == 2
NumGuilds == 2
MaxSnapshotLen == 2
MaxTime == 2
MaxExpiresIn == 2
NumSessionIds == 1
NumTokens == 1
MaxLogLen == 2

(***************************************************************************)
(* Program constants.                                                      *)
(***************************************************************************)
\* SimpleConnectionPool(1, 20, ...): the pool's maxconn
MaxConn == 20
\* the ADMINISTRATOR bit of a permission mask: (permissions & 8) = 8
ADMINISTRATOR == 8
\* test_message VARCHAR(255)
VarcharLen == 255

Threads == 1..NumThreads
SessionIds == 1..NumSessionIds
Tokens == 1..NumTokens
Users == 1..NumUsers
Guilds == 1..NumGuilds

\* the name a guilds_data entry carries; NoName is an entry without 'name'
GuildName == "guild"
NoName == "<no name>"

VARIABLES
    \* ---- threads
    pc,             \* the step each thread is at
    call,           \* the operation a thread runs, with its arguments
    ret,            \* what the operation returned (or that it raised)
    loc,            \* the operation's local variables
    \* ---- psycopg2.pool.SimpleConnectionPool
    used,           \* the threads whose connection is in pool._used
    closed,         \* pool.closed
    \* ---- the store (committed rows)
    user_guilds,
    bot_guilds,
    user_sessions,
    config_tokens,
    guild_messages,
    audit_logs,     \* the committed entries, in the order they were added
    \* ---- open transactions: rows deleted and rows inserted, uncommitted
    pendUG,
    pendBG,
    \* ---- the server's clock
    now,
    \* ---- the class DatabaseManager and its one instance
    instance,       \* cls._instance is not None
    lock,           \* the thread inside "with cls._lock", or 0
    initialized,    \* self._initialized: "unset" before line 17 has run
    pool,           \* self.pool: the number of the pool it names, 0 before
    pools,          \* how many SimpleConnectionPool have been constructed
    bootstraps,     \* how many times _create_tables_if_not_exists has run
    schema,         \* the relations and indexes that exist
    \* ---- history, for stating the claims
    lastSync,       \* per user, the entries of the last committed snapshot
    removedSince,   \* per thread, guilds removed after its snapshot was taken
    consumed        \* per token, the validations that returned true

vars == <<pc, call, ret, loc, used, closed, user_guilds, bot_guilds,
          user_sessions, config_tokens, pendUG, pendBG, now, instance, lock,
          initialized, pool, pools, bootstraps, schema, lastSync, removedSince,
          consumed, guild_messages, audit_logs>>

threadVars == <<pc, call, ret, loc>>
poolVars == <<used, closed>>
guildTables == <<user_guilds, bot_guilds, pendUG, pendBG>>
history == <<lastSync, removedSince>>
ctorVars == <<instance, lock, initialized, pool, pools, bootstraps, schema>>
\* what the Guild Directory and the pool leave alone
records == <<guild_messages, audit_logs>>
rest == <<user_sessions, config_tokens, now, ctorVars, consumed, records>>

(***************************************************************************)
(* Values                                                                  *)
(***************************************************************************)
NoCall == [op |-> "none"]
Pending == [kind |-> "pending"]
Raised == [kind |-> "raised"]
RetNone == [kind |-> "None"]
RetBool(b) == [kind |-> "bool", val |-> b]
RetList(rows) == [kind |-> "list", val |-> rows]
RetSessionId(sid) == [kind |-> "session_id", val |-> sid]
RetSession(view) == [kind |-> "session", val |-> view]
RetToken(token) == [kind |-> "token", val |-> token]
RetManager == [kind |-> "manager"]
RetMessage(m) == [kind |-> "str", val |-> m]
\* open: the uncommitted rows of other transactions when a SELECT ran (history)
NoLocals == [i |-> 1, txtime |-> 0, result |-> {}, pool |-> 0, open |-> {}]
NoPending == [del |-> {}, ins |-> {}]
NoSync == [synced |-> FALSE, guilds |-> {}]

ReturnedTrue(t) == ret[t].kind = "bool" /\ ret[t].val
ReturnedFalse(t) == ret[t].kind = "bool" /\ ~ret[t].val

\* permissions & 8, for a non-negative mask
BitAnd8(permissions) == ((permissions \div 8) % 2) * 8

(***************************************************************************)
(* The pool: _get_connection and _return_connection.                       *)
(***************************************************************************)
\* pool.getconn() raises PoolError when the pool is closed or exhausted
GetconnFails == closed \/ Cardinality(used) >= MaxConn

\* pool.putconn() raises PoolError when the pool is closed
PutconnFails == closed

\* the connection of thread t can still run a statement
ConnOpen(t) == t \in used /\ ~closed

FirstStep(op) ==
    CASE op = "sync_user_guilds" -> "sug_delete"
      [] op = "sync_bot_guilds" -> "sbg_delete"
      [] op = "add_bot_guild" -> "abg_execute"
      [] op = "remove_bot_guild" -> "rbg_execute"
      [] op = "is_bot_in_guild" -> "ibg_select"
      [] op = "get_user_guilds" -> "gug_select"
      [] op = "check_user_guild_permission" -> "cugp_select"
      [] op = "create_session" -> "cs_execute"
      [] op = "get_session" -> "gs_select"
      [] op = "delete_session" -> "ds_execute"
      [] op = "issue" -> "it_execute"
      [] op = "insert_or_update_message" -> "ium_execute"
      [] op = "get_test_message" -> "gtm_select"
      [] op = "log_action" -> "la_execute"
      [] op = "validateAndConsume" -> "vc_execute"
      [] op = "checkValid" -> "cv_select"
      [] OTHER -> "finally"

\* the value an operation's except branch returns
FailureValue(op) ==
    CASE op = "get_user_guilds" -> RetList({})
      [] op \in {"get_session", "create_session", "get_test_message"} -> RetNone
      [] OTHER -> RetBool(FALSE)

Statements ==
    {"sug_delete", "sug_insert", "sug_commit", "sbg_delete", "sbg_insert",
     "sbg_commit", "abg_execute", "rbg_execute", "ibg_select", "gug_select",
     "cugp_select", "cs_execute", "gs_select", "gs_update", "ds_execute",
     "it_execute", "vc_execute", "cv_select",
     "ium_execute", "gtm_select", "la_execute"}

\* conn = self._get_connection(), which stands before the try block
GetConnection(t) ==
    /\ pc[t] = "getconn"
    /\ IF GetconnFails
         THEN /\ pc' = [pc EXCEPT ![t] = "done"]
              /\ ret' = [ret EXCEPT ![t] = Raised]
              /\ used' = used
         ELSE /\ pc' = [pc EXCEPT ![t] = FirstStep(call[t].op)]
              /\ ret' = ret
              /\ used' = used \cup {t}
    /\ UNCHANGED <<call, loc, closed, guildTables, history, rest>>

\* (mutant) a putconn that leaves the open transaction on the connection
ReturnConnectionAsIs(t) ==
    /\ pc[t] = "finally"
    /\ pc' = [pc EXCEPT ![t] = "done"]
    /\ IF PutconnFails
         THEN /\ ret' = [ret EXCEPT ![t] = Raised]
              /\ used' = used
         ELSE /\ ret' = ret
              /\ used' = used \ {t}
    /\ UNCHANGED <<call, loc, closed, guildTables, history, rest>>

\* finally: self._return_connection(conn).  putconn rolls back what the
\* transaction left open; on a closed pool it raises instead.
ReturnConnection(t) ==
    /\ pc[t] = "finally"
    /\ pc' = [pc EXCEPT ![t] = "done"]
    /\ IF PutconnFails
         THEN /\ ret' = [ret EXCEPT ![t] = Raised]
              /\ used' = used
         ELSE /\ ret' = ret
              /\ used' = used \ {t}
    /\ pendUG' = [pendUG EXCEPT ![t] = NoPending]
    /\ pendBG' = [pendBG EXCEPT ![t] = NoPending]
    /\ UNCHANGED <<call, loc, closed, user_guilds, bot_guilds, history, rest>>

\* except Exception: a statement fails (the connection is closed or lost, the
\* server aborts the transaction, ...); the operation returns its failure value
Fault(t) ==
    /\ pc[t] \in Statements
    /\ pc' = [pc EXCEPT ![t] = "finally"]
    /\ ret' = [ret EXCEPT ![t] = FailureValue(call[t].op)]
    /\ UNCHANGED <<call, loc, poolVars, guildTables, history, rest>>

\* the caller takes the result; the thread is free for its next call
Finish(t) ==
    /\ pc[t] = "done"
    /\ pc' = [pc EXCEPT ![t] = "idle"]
    /\ call' = [call EXCEPT ![t] = NoCall]
    /\ ret' = [ret EXCEPT ![t] = Pending]
    /\ loc' = [loc EXCEPT ![t] = NoLocals]
    /\ removedSince' = [removedSince EXCEPT ![t] = {}]
    /\ UNCHANGED <<poolVars, guildTables, lastSync, rest>>

\* close(): pool.closeall() closes every connection, the borrowed ones too (the
\* server rolls their transactions back), and leaves pool._used as it is
Close ==
    /\ ~closed
    /\ closed' = TRUE
    /\ pendUG' = [t \in Threads |-> NoPending]
    /\ pendBG' = [t \in Threads |-> NoPending]
    /\ UNCHANGED <<threadVars, used, user_guilds, bot_guilds, history, rest>>

Start(t, c) ==
    /\ pc[t] = "idle"
    /\ pc' = [pc EXCEPT ![t] = "getconn"]
    /\ call' = [call EXCEPT ![t] = c]
    /\ UNCHANGED <<ret, loc, poolVars, guildTables, history, rest>>


(***************************************************************************)
(* Guild Directory: the guilds_data a caller passes in.                    *)
(***************************************************************************)
OwnerRole == [owner |-> TRUE, permissions |-> 4]
AdminRole == [owner |-> FALSE, permissions |-> 12]
MemberRole == [owner |-> FALSE, permissions |-> 4]
Roles == {OwnerRole, AdminRole, MemberRole}

UserGuildEntry(g, n, r) ==
    [id |-> g, name |-> n, owner |-> r.owner, permissions |-> r.permissions]

SeqsUpTo(S, n) == UNION {[1..k -> S] : k \in 0..n}

\* snapshots whose entries differ in owner and permissions
RoleSnapshots ==
    SeqsUpTo({UserGuildEntry(g, GuildName, r) : g \in Guilds, r \in Roles}, 1)
      \cup {<<UserGuildEntry(1, GuildName, r1), UserGuildEntry(NumGuilds, GuildName, r2)>> :
              r1 \in Roles, r2 \in Roles}

\* the snapshots of the users beside the first
OtherSnapshots ==
    {<<>>, <<UserGuildEntry(1, GuildName, AdminRole),
             UserGuildEntry(NumGuilds, GuildName, OwnerRole)>>}

\* snapshots of plain members, with repeated guilds and an entry without a name
MemberSnapshots ==
    SeqsUpTo({UserGuildEntry(g, GuildName, MemberRole) : g \in Guilds}
               \cup {UserGuildEntry(1, NoName, MemberRole)},
             MaxSnapshotLen)

MemberCounts == {0, 100}
BotGuildEntry(g, m) == [id |-> g, name |-> GuildName, member_count |-> m]
BotSnapshots == SeqsUpTo({BotGuildEntry(g, 0) : g \in Guilds}, MaxSnapshotLen)

(***************************************************************************)
(* Rows, and what a transaction sees and holds.                            *)
(***************************************************************************)
UserGuildRow(u, e) ==
    [user_id |-> u, guild_id |-> e.id, guild_name |-> e.name,
     owner |-> e.owner, permissions |-> e.permissions]

BotGuildRow(g, n, m) == [guild_id |-> g, guild_name |-> n, member_count |-> m]

\* committed rows, less the transaction's deletes, plus its inserts
Visible(table, pend) == (table \ pend.del) \cup pend.ins

\* the rows of other open transactions: a write on one of them waits
HeldByOthers(pend, t) ==
    UNION {pend[t2].del \cup pend[t2].ins : t2 \in Threads \ {t}}

DeletedByOthers(pend, t) == UNION {pend[t2].del : t2 \in Threads \ {t}}

(***************************************************************************)
(* sync_user_guilds(user_id, guilds_data)                                  *)
(***************************************************************************)
\* (mutant) the DELETE without its WHERE clause
SugDeleteTargetsAnyUser(u, rows) == rows

\* the rows DELETE FROM user_guilds WHERE user_id = %s removes
SugDeleteTargets(u, rows) == {r \in rows : r.user_id = u}

Entries(data) == {data[i] : i \in 1..Len(data)}

\* DELETE FROM user_guilds WHERE user_id = %s
SugDelete(t) ==
    LET targets == SugDeleteTargets(call[t].user_id, Visible(user_guilds, pendUG[t]))
    IN  /\ pc[t] = "sug_delete"
        /\ ConnOpen(t)
        /\ targets \cap DeletedByOthers(pendUG, t) = {}
        /\ pendUG' = [pendUG EXCEPT ![t] = [del |-> targets, ins |-> {}]]
        /\ pc' = [pc EXCEPT ![t] = IF call[t].guilds_data = <<>>
                                     THEN "sug_commit" ELSE "sug_insert"]
        /\ UNCHANGED <<call, ret, loc, poolVars, user_guilds, bot_guilds, pendBG,
                       history, rest>>

\* one turn of the loop: INSERT INTO user_guilds ... VALUES (...)
SugInsert(t) ==
    LET u == call[t].user_id
        data == call[t].guilds_data
        e == data[loc[t].i]
        SameKey(r) == r.user_id = u /\ r.guild_id = e.id
        fails == \/ e.name = NoName                        \* guild['name']: KeyError
                 \/ \E r \in Visible(user_guilds, pendUG[t]) : SameKey(r)
                                                           \* UNIQUE(user_id, guild_id)
    IN  /\ pc[t] = "sug_insert"
        /\ ConnOpen(t)
        /\ e.name = NoName \/ ~\E r \in HeldByOthers(pendUG, t) : SameKey(r)
        /\ IF fails
             THEN /\ pc' = [pc EXCEPT ![t] = "finally"]
                  /\ ret' = [ret EXCEPT ![t] = RetBool(FALSE)]
                  /\ UNCHANGED <<loc, pendUG>>
             ELSE /\ pendUG' = [pendUG EXCEPT ![t].ins = @ \cup {UserGuildRow(u, e)}]
                  /\ loc' = [loc EXCEPT ![t].i = @ + 1]
                  /\ pc' = [pc EXCEPT ![t] = IF loc[t].i = Len(data)
                                               THEN "sug_commit" ELSE "sug_insert"]
                  /\ ret' = ret
        /\ UNCHANGED <<call, poolVars, user_guilds, bot_guilds, pendBG, history, rest>>

\* conn.commit(); return True
SugCommit(t) ==
    /\ pc[t] = "sug_commit"
    /\ ConnOpen(t)
    /\ user_guilds' = Visible(user_guilds, pendUG[t])
    /\ pendUG' = [pendUG EXCEPT ![t] = NoPending]
    /\ ret' = [ret EXCEPT ![t] = RetBool(TRUE)]
    /\ pc' = [pc EXCEPT ![t] = "finally"]
    /\ lastSync' = [lastSync EXCEPT ![call[t].user_id] =
                       [synced |-> TRUE, guilds |-> Entries(call[t].guilds_data)]]
    /\ UNCHANGED <<call, loc, poolVars, bot_guilds, pendBG, removedSince, rest>>

(***************************************************************************)
(* sync_bot_guilds(guilds_data)                                            *)
(***************************************************************************)
GuildIds(data) == {data[i].id : i \in 1..Len(data)}

\* DELETE FROM bot_guilds
SbgDelete(t) ==
    LET targets == Visible(bot_guilds, pendBG[t])
    IN  /\ pc[t] = "sbg_delete"
        /\ ConnOpen(t)
        /\ targets \cap DeletedByOthers(pendBG, t) = {}
        /\ pendBG' = [pendBG EXCEPT ![t] = [del |-> targets, ins |-> {}]]
        /\ pc' = [pc EXCEPT ![t] = IF call[t].guilds_data = <<>>
                                     THEN "sbg_commit" ELSE "sbg_insert"]
        /\ UNCHANGED <<call, ret, loc, poolVars, user_guilds, bot_guilds, pendUG,
                       history, rest>>

\* what INSERT ... ON CONFLICT (guild_id) DO UPDATE leaves of a transaction's
\* pending rows: the row of that guild replaced, or the new row added
Upsert(table, pend, row) ==
    LET old == {r \in Visible(table, pend) : r.guild_id = row.guild_id}
    IN  [del |-> pend.del \cup (old \cap table),
         ins |-> (pend.ins \ old) \cup {row}]

\* one turn of the loop: the upsert of one guild
SbgInsert(t) ==
    LET data == call[t].guilds_data
        e == data[loc[t].i]
    IN  /\ pc[t] = "sbg_insert"
        /\ ConnOpen(t)
        /\ ~\E r \in HeldByOthers(pendBG, t) : r.guild_id = e.id
        /\ pendBG' = [pendBG EXCEPT ![t] =
                        Upsert(bot_guilds, @, BotGuildRow(e.id, e.name, e.member_count))]
        /\ loc' = [loc EXCEPT ![t].i = @ + 1]
        /\ pc' = [pc EXCEPT ![t] = IF loc[t].i = Len(data)
                                     THEN "sbg_commit" ELSE "sbg_insert"]
        /\ UNCHANGED <<call, ret, poolVars, user_guilds, bot_guilds, pendUG, history, rest>>

\* conn.commit(); return True
SbgCommit(t) ==
    /\ pc[t] = "sbg_commit"
    /\ ConnOpen(t)
    /\ bot_guilds' = Visible(bot_guilds, pendBG[t])
    /\ pendBG' = [pendBG EXCEPT ![t] = NoPending]
    /\ ret' = [ret EXCEPT ![t] = RetBool(TRUE)]
    /\ pc' = [pc EXCEPT ![t] = "finally"]
    \* a snapshot taken after a removal may bring the guild back
    /\ removedSince' = [t2 \in Threads |->
                          IF t2 = t THEN removedSince[t2]
                          ELSE removedSince[t2] \
                                 (GuildIds(call[t].guilds_data) \ removedSince[t])]
    /\ UNCHANGED <<call, loc, poolVars, user_guilds, pendUG, lastSync, rest>>

(***************************************************************************)
(* add_bot_guild, remove_bot_guild, is_bot_in_guild                        *)
(***************************************************************************)
\* INSERT ... ON CONFLICT (guild_id) DO UPDATE; conn.commit(); return True
AbgExecute(t) ==
    LET g == call[t].guild_id
        row == BotGuildRow(g, call[t].guild_name, call[t].member_count)
    IN  /\ pc[t] = "abg_execute"
        /\ ConnOpen(t)
        /\ ~\E r \in HeldByOthers(pendBG, t) : r.guild_id = g
        /\ bot_guilds' = Visible(bot_guilds, Upsert(bot_guilds, NoPending, row))
        /\ ret' = [ret EXCEPT ![t] = RetBool(TRUE)]
        /\ pc' = [pc EXCEPT ![t] = "finally"]
        /\ removedSince' = [t2 \in Threads |-> removedSince[t2] \ {g}]
        /\ UNCHANGED <<call, loc, poolVars, user_guilds, pendUG, pendBG, lastSync, rest>>

\* the threads that hold a snapshot for sync_bot_guilds
HoldsSnapshot(t) == call[t].op = "sync_bot_guilds" /\ pc[t] # "idle"

\* DELETE FROM bot_guilds WHERE guild_id = %s; conn.commit(); return True
RbgExecute(t) ==
    LET g == call[t].guild_id
        targets == {r \in bot_guilds : r.guild_id = g}
    IN  /\ pc[t] = "rbg_execute"
        /\ ConnOpen(t)
        /\ targets \cap DeletedByOthers(pendBG, t) = {}
        /\ bot_guilds' = bot_guilds \ targets
        /\ ret' = [ret EXCEPT ![t] = RetBool(TRUE)]
        /\ pc' = [pc EXCEPT ![t] = "finally"]
        /\ removedSince' = [t2 \in Threads |->
                              IF HoldsSnapshot(t2) THEN removedSince[t2] \cup {g}
                              ELSE removedSince[t2]]
        /\ UNCHANGED <<call, loc, poolVars, user_guilds, pendUG, pendBG, lastSync, rest>>

\* SELECT EXISTS(SELECT 1 FROM bot_guilds WHERE guild_id = %s)
BotGuildExists(g) == \E r \in bot_guilds : r.guild_id = g

IbgSelect(t) ==
    /\ pc[t] = "ibg_select"
    /\ ConnOpen(t)
    /\ ret' = [ret EXCEPT ![t] = RetBool(BotGuildExists(call[t].guild_id))]
    /\ pc' = [pc EXCEPT ![t] = "finally"]
    /\ UNCHANGED <<call, loc, poolVars, guildTables, history, rest>>

(***************************************************************************)
(* get_user_guilds, check_user_guild_permission                            *)
(***************************************************************************)
\* (mutant) a join that reads the uncommitted rows of every open transaction
LeftJoinUncommitted ==
    LET deleted == UNION {pendUG[t].del : t \in Threads}
        inserted == UNION {pendUG[t].ins : t \in Threads}
    IN  {<<ug, {bg \in bot_guilds : bg.guild_id = ug.guild_id}>> :
            ug \in (user_guilds \ deleted) \cup inserted}

\* user_guilds ug LEFT JOIN bot_guilds bg ON ug.guild_id = bg.guild_id:
\* pairs <<ug row, matching bg rows>> (none or one, guild_id being bg's key)
LeftJoin ==
    {<<ug, {bg \in bot_guilds : bg.guild_id = ug.guild_id}>> : ug \in user_guilds}

\* owner = TRUE OR (permissions & 8) = 8
HasAdministrator(owner, permissions) ==
    owner \/ BitAnd8(permissions) = ADMINISTRATOR

\* (mutant) the manageable view without AND bg.guild_id IS NOT NULL
GuildSelectedWithoutBot(j, u, manageable_only) ==
    /\ j[1].user_id = u
    /\ manageable_only => HasAdministrator(j[1].owner, j[1].permissions)

\* the WHERE clause of the two queries
GuildSelected(j, u, manageable_only) ==
    /\ j[1].user_id = u
    /\ manageable_only =>
         /\ HasAdministrator(j[1].owner, j[1].permissions)
         /\ j[2] # {}

\* the selected columns, bot_present being CASE WHEN bg.guild_id IS NOT NULL
GuildView(j) ==
    [guild_id |-> j[1].guild_id, guild_name |-> j[1].guild_name,
     owner |-> j[1].owner, permissions |-> j[1].permissions,
     bot_present |-> j[2] # {}]

UserGuildsQuery(u, manageable_only) ==
    {GuildView(j) : j \in {k \in LeftJoin : GuildSelected(k, u, manageable_only)}}

\* the rows of user u that other open transactions have deleted or inserted
OpenWrites(u, t) == {r \in HeldByOthers(pendUG, t) : r.user_id = u}

GugSelect(t) ==
    /\ pc[t] = "gug_select"
    /\ ConnOpen(t)
    /\ ret' = [ret EXCEPT ![t] =
                 RetList(UserGuildsQuery(call[t].user_id, call[t].manageable_only))]
    /\ loc' = [loc EXCEPT ![t].open = OpenWrites(call[t].user_id, t)]
    /\ pc' = [pc EXCEPT ![t] = "finally"]
    /\ UNCHANGED <<call, poolVars, guildTables, history, rest>>

\* SELECT owner, permissions FROM user_guilds WHERE user_id = %s AND guild_id = %s
PermissionQuery(u, g) == {r \in user_guilds : r.user_id = u /\ r.guild_id = g}

\* (mutant) the check without the ADMINISTRATOR bit: return owner
PermissionResultOwnerOnly(rows) ==
    IF rows # {} THEN (CHOOSE x \in rows : TRUE).owner ELSE FALSE

\* result = cursor.fetchone(); owner or (permissions & 8) == 8 when there is one
PermissionResult(rows) ==
    IF rows # {}
      THEN LET r == CHOOSE x \in rows : TRUE
           IN  HasAdministrator(r.owner, r.permissions)
      ELSE FALSE

CugpSelect(t) ==
    /\ pc[t] = "cugp_select"
    /\ ConnOpen(t)
    /\ ret' = [ret EXCEPT ![t] =
                 RetBool(PermissionResult(PermissionQuery(call[t].user_id,
                                                          call[t].guild_id)))]
    /\ pc' = [pc EXCEPT ![t] = "finally"]
    /\ UNCHANGED <<call, loc, poolVars, guildTables, history, rest>>

(***************************************************************************)
(* The calls of the Guild Directory.                                       *)
(***************************************************************************)
CallSyncUserGuilds(t, u, data) ==
    Start(t, [op |-> "sync_user_guilds", user_id |-> u, guilds_data |-> data])

CallSyncBotGuilds(t, data) ==
    Start(t, [op |-> "sync_bot_guilds", guilds_data |-> data])

CallAddBotGuild(t, g, m) ==
    Start(t, [op |-> "add_bot_guild", guild_id |-> g, guild_name |-> GuildName,
              member_count |-> m])

CallRemoveBotGuild(t, g) == Start(t, [op |-> "remove_bot_guild", guild_id |-> g])

CallIsBotInGuild(t, g) == Start(t, [op |-> "is_bot_in_guild", guild_id |-> g])

CallGetUserGuilds(t, u, m) ==
    Start(t, [op |-> "get_user_guilds", user_id |-> u, manageable_only |-> m])

CallCheckUserGuildPermission(t, u, g) ==
    Start(t, [op |-> "check_user_guild_permission", user_id |-> u, guild_id |-> g])

(***************************************************************************)
(* Session Store.  CURRENT_TIMESTAMP is the time the transaction began,    *)
(* which is the time of the operation's first statement.                   *)
(***************************************************************************)
\* the server's clock moves on
Tick ==
    /\ now < MaxTime
    /\ now' = now + 1
    /\ UNCHANGED <<threadVars, poolVars, guildTables, history, user_sessions,
                   config_tokens, ctorVars, consumed, records>>

\* token_data['expires_in'] of a kind timedelta(seconds=...) rejects
BadExpiresIn == -1
ExpiresIn == (1..MaxExpiresIn) \cup {BadExpiresIn}

\* the access token the identity provider issued to a user
AccessTokenOf(u) == 100 + u

SessionRow(sid, u, access, expires, activity) ==
    [session_id |-> sid, user_id |-> u, access_token |-> access,
     expires_at |-> expires, last_activity |-> activity]

\* session_id = secrets.token_urlsafe(48); expires_at = datetime.now(...) +
\* timedelta(seconds=token_data.get('expires_in', 604800)), both before the
\* connection is taken and outside the try block
CallCreateSession(t, sid, u, access, expires_in) ==
    /\ pc[t] = "idle"
    /\ call' = [call EXCEPT ![t] =
                  [op |-> "create_session", session_id |-> sid, user_id |-> u,
                   access_token |-> access, expires_in |-> expires_in,
                   expires_at |-> now + expires_in]]
    /\ IF expires_in = BadExpiresIn
         THEN /\ pc' = [pc EXCEPT ![t] = "done"]
              /\ ret' = [ret EXCEPT ![t] = Raised]
         ELSE /\ pc' = [pc EXCEPT ![t] = "getconn"]
              /\ ret' = ret
    /\ UNCHANGED <<loc, poolVars, guildTables, history, rest>>

\* INSERT INTO user_sessions ... ON CONFLICT (session_id) DO UPDATE SET
\* access_token, expires_at, last_activity = CURRENT_TIMESTAMP
SessionUpsert(rows, new) ==
    IF \E r \in rows : r.session_id = new.session_id
      THEN {IF r.session_id = new.session_id
              THEN [r EXCEPT !.access_token = new.access_token,
                             !.expires_at = new.expires_at,
                             !.last_activity = new.last_activity]
              ELSE r : r \in rows}
      ELSE rows \cup {new}

\* the upsert; conn.commit(); return session_id
CsExecute(t) ==
    LET c == call[t]
    IN  /\ pc[t] = "cs_execute"
        /\ ConnOpen(t)
        /\ user_sessions' =
              SessionUpsert(user_sessions,
                            SessionRow(c.session_id, c.user_id, c.access_token,
                                       c.expires_at, now))
        /\ ret' = [ret EXCEPT ![t] = RetSessionId(c.session_id)]
        /\ pc' = [pc EXCEPT ![t] = "finally"]
        /\ UNCHANGED <<call, loc, poolVars, guildTables, history, config_tokens, now,
                       ctorVars, consumed, records>>

\* (mutant) the SELECT without AND expires_at > CURRENT_TIMESTAMP
SessionReadableForever(r, sid, time) == r.session_id = sid

\* WHERE session_id = %s AND expires_at > CURRENT_TIMESTAMP
SessionReadable(r, sid, time) == r.session_id = sid /\ r.expires_at > time

\* the SELECT and result = cursor.fetchone(); return None without a row
GsSelect(t) ==
    LET rows == {r \in user_sessions : SessionReadable(r, call[t].session_id, now)}
    IN  /\ pc[t] = "gs_select"
        /\ ConnOpen(t)
        /\ loc' = [loc EXCEPT ![t].txtime = now, ![t].result = rows]
        /\ IF rows # {}
             THEN /\ pc' = [pc EXCEPT ![t] = "gs_update"]
                  /\ ret' = ret
             ELSE /\ pc' = [pc EXCEPT ![t] = "finally"]
                  /\ ret' = [ret EXCEPT ![t] = RetNone]
        /\ UNCHANGED <<call, poolVars, guildTables, history, rest>>

\* the value UPDATE ... SET last_activity = CURRENT_TIMESTAMP stores: the time
\* the transaction began
ActivityStamp(txtime, old) == txtime

\* the dict get_session returns, from the row the SELECT fetched
SessionView(r) ==
    [user_id |-> r.user_id, access_token |-> r.access_token,
     expires_at |-> r.expires_at]

\* UPDATE user_sessions SET last_activity = CURRENT_TIMESTAMP WHERE
\* session_id = %s; conn.commit(); return {...}
GsUpdate(t) ==
    /\ pc[t] = "gs_update"
    /\ ConnOpen(t)
    /\ user_sessions' =
          {IF r.session_id = call[t].session_id
             THEN [r EXCEPT !.last_activity = ActivityStamp(loc[t].txtime, @)]
             ELSE r : r \in user_sessions}
    /\ ret' = [ret EXCEPT ![t] =
                 RetSession(SessionView(CHOOSE r \in loc[t].result : TRUE))]
    /\ pc' = [pc EXCEPT ![t] = "finally"]
    /\ UNCHANGED <<call, loc, poolVars, guildTables, history, config_tokens, now,
                   ctorVars, consumed, records>>

\* DELETE FROM user_sessions WHERE session_id = %s; conn.commit(); return True
DsExecute(t) ==
    /\ pc[t] = "ds_execute"
    /\ ConnOpen(t)
    /\ user_sessions' = {r \in user_sessions : r.session_id # call[t].session_id}
    /\ ret' = [ret EXCEPT ![t] = RetBool(TRUE)]
    /\ pc' = [pc EXCEPT ![t] = "finally"]
    /\ UNCHANGED <<call, loc, poolVars, guildTables, history, config_tokens, now,
                   ctorVars, consumed, records>>

CallGetSession(t, sid) == Start(t, [op |-> "get_session", session_id |-> sid])

CallDeleteSession(t, sid) == Start(t, [op |-> "delete_session", session_id |-> sid])

(***************************************************************************)
(* Token Store (section 4.4 of the specification).                         *)
(***************************************************************************)
TokenRow(token, g, expires) ==
    [token |-> token, guild_id |-> g, expires_at |-> expires, used |-> FALSE,
     used_at |-> 0]

\* issue: INSERT ... ON CONFLICT DO NOTHING of a fresh unused token
ItExecute(t) ==
    LET c == call[t]
    IN  /\ pc[t] = "it_execute"
        /\ ConnOpen(t)
        /\ config_tokens' =
              IF \E r \in config_tokens : r.token = c.token
                THEN config_tokens
                ELSE config_tokens \cup {TokenRow(c.token, c.guild_id, now + c.ttl)}
        /\ ret' = [ret EXCEPT ![t] = RetToken(c.token)]
        /\ pc' = [pc EXCEPT ![t] = "finally"]
        /\ UNCHANGED <<call, loc, poolVars, guildTables, history, user_sessions, now,
                       ctorVars, consumed, records>>

\* (mutant) the update without its used = false condition
TokenConsumableAgain(r, token, g, time) ==
    r.token = token /\ r.guild_id = g /\ r.expires_at > time

\* (mutant) the update without its expires_at > now condition
TokenConsumableExpired(r, token, g, time) ==
    r.token = token /\ r.guild_id = g /\ ~r.used

\* WHERE token = ... AND guild_id = ... AND used = false AND expires_at > now
TokenConsumable(r, token, g, time) ==
    r.token = token /\ r.guild_id = g /\ ~r.used /\ r.expires_at > time

\* validateAndConsume: the single conditional UPDATE ... RETURNING; success if
\* and only if a row was updated
VcExecute(t) ==
    LET c == call[t]
        hit == {r \in config_tokens : TokenConsumable(r, c.token, c.guild_id, now)}
    IN  /\ pc[t] = "vc_execute"
        /\ ConnOpen(t)
        /\ config_tokens' =
              (config_tokens \ hit)
                \cup {[r EXCEPT !.used = TRUE, !.used_at = now] : r \in hit}
        /\ consumed' = [k \in Tokens |->
                          IF k = c.token /\ hit # {} THEN consumed[k] + 1
                          ELSE consumed[k]]
        /\ ret' = [ret EXCEPT ![t] = RetBool(hit # {})]
        /\ loc' = [loc EXCEPT ![t].txtime = now]
        /\ pc' = [pc EXCEPT ![t] = "finally"]
        /\ UNCHANGED <<call, poolVars, guildTables, lastSync, removedSince,
                       user_sessions, now, ctorVars, records>>

\* (mutant) a checkValid that stamps used_at on the row it finds
CvSelectStamping(t) ==
    LET c == call[t]
        hit == {r \in config_tokens : TokenConsumable(r, c.token, c.guild_id, now)}
    IN  /\ pc[t] = "cv_select"
        /\ ConnOpen(t)
        /\ config_tokens' =
              (config_tokens \ hit) \cup {[r EXCEPT !.used_at = now + 1] : r \in hit}
        /\ ret' = [ret EXCEPT ![t] = RetBool(hit # {})]
        /\ pc' = [pc EXCEPT ![t] = "finally"]
        /\ UNCHANGED <<call, loc, poolVars, guildTables, history, user_sessions, now,
                       ctorVars, consumed, records>>

\* checkValid: a SELECT of the matching unexpired unused row
CvSelect(t) ==
    LET c == call[t]
    IN  /\ pc[t] = "cv_select"
        /\ ConnOpen(t)
        /\ ret' = [ret EXCEPT ![t] =
                     RetBool(\E r \in config_tokens :
                                TokenConsumable(r, c.token, c.guild_id, now))]
        /\ pc' = [pc EXCEPT ![t] = "finally"]
        /\ UNCHANGED <<call, loc, poolVars, guildTables, history, rest>>

CallIssue(t, token, g, ttl) ==
    Start(t, [op |-> "issue", token |-> token, guild_id |-> g, ttl |-> ttl])

\* the call notes whether the token had been consumed when it started
CallValidateAndConsume(t, token, g) ==
    Start(t, [op |-> "validateAndConsume", token |-> token, guild_id |-> g,
              after_success |-> consumed[token] > 0])

CallCheckValid(t, token, g) ==
    Start(t, [op |-> "checkValid", token |-> token, guild_id |-> g])

(***************************************************************************)
(* Message Record: insert_or_update_message, get_test_message              *)
(***************************************************************************)
\* a string: its text up to the trailing spaces, that text's length, and the
\* number of trailing spaces
Text(text, len, pad) == [text |-> text, len |-> len, pad |-> pad]

Messages ==
    {Text("hello", 5, 0), Text("world", 5, 0), Text("long", VarcharLen, 1),
     Text("long", VarcharLen + 1, 0)}

\* a value longer than the column is an error unless only spaces exceed it
VarcharAccepts(m) == m.len <= VarcharLen

\* what the column stores: the excess spaces are cut off
VarcharStored(m) ==
    IF m.len + m.pad <= VarcharLen THEN m ELSE [m EXCEPT !.pad = VarcharLen - m.len]

MessageRow(g, m) == [guild_id |-> g, test_message |-> m]

\* (mutant) ON CONFLICT (guild_id) DO NOTHING
MessageInsertOnly(rows, g, m) ==
    IF \E r \in rows : r.guild_id = g THEN rows
    ELSE rows \cup {MessageRow(g, VarcharStored(m))}

\* INSERT ... ON CONFLICT (guild_id) DO UPDATE SET test_message = EXCLUDED.test_message
MessageUpsert(rows, g, m) ==
    {r \in rows : r.guild_id # g} \cup {MessageRow(g, VarcharStored(m))}

\* the upsert and conn.commit(); return True
IumExecute(t) ==
    LET c == call[t]
    IN  /\ pc[t] = "ium_execute"
        /\ ConnOpen(t)
        /\ IF VarcharAccepts(c.test_message)
             THEN /\ guild_messages' = MessageUpsert(guild_messages, c.guild_id,
                                                     c.test_message)
                  /\ ret' = [ret EXCEPT ![t] = RetBool(TRUE)]
             ELSE /\ guild_messages' = guild_messages
                  /\ ret' = [ret EXCEPT ![t] = RetBool(FALSE)]
        /\ pc' = [pc EXCEPT ![t] = "finally"]
        /\ UNCHANGED <<call, loc, poolVars, guildTables, history, user_sessions,
                       config_tokens, now, ctorVars, consumed, audit_logs>>

\* SELECT test_message FROM guild_messages WHERE guild_id = %s;
\* return result[0] if result else None
GtmSelect(t) ==
    LET result == {r \in guild_messages : r.guild_id = call[t].guild_id}
    IN  /\ pc[t] = "gtm_select"
        /\ ConnOpen(t)
        /\ ret' = [ret EXCEPT ![t] =
                     IF result = {} THEN RetNone
                     ELSE RetMessage((CHOOSE r \in result : TRUE).test_message)]
        /\ pc' = [pc EXCEPT ![t] = "finally"]
        /\ UNCHANGED <<call, loc, poolVars, guildTables, history, rest>>

CallInsertOrUpdateMessage(t, g, m) ==
    Start(t, [op |-> "insert_or_update_message", guild_id |-> g, test_message |-> m])

CallGetTestMessage(t, g) == Start(t, [op |-> "get_test_message", guild_id |-> g])

(***************************************************************************)
(* Audit Log: log_action                                                   *)
(***************************************************************************)
\* action = None, which the column's NOT NULL rejects
NoAction == "<None>"
Actions == {"config_update", "config_view", NoAction}

AuditEntry(u, g, action) == [user_id |-> u, guild_id |-> g, action |-> action]

\* (mutant) an insert that replaces the user's earlier entry for the guild
LogUpsert(log, e) ==
    Append(SelectSeq(log, LAMBDA x : ~(x.user_id = e.user_id /\ x.guild_id = e.guild_id)),
           e)

\* INSERT INTO audit_logs (...) VALUES (...)
LogInsert(log, e) == Append(log, e)

\* the insert and conn.commit(); return True
LaExecute(t) ==
    LET c == call[t]
    IN  /\ pc[t] = "la_execute"
        /\ ConnOpen(t)
        /\ IF c.action # NoAction
             THEN /\ audit_logs' = LogInsert(audit_logs,
                                             AuditEntry(c.user_id, c.guild_id, c.action))
                  /\ ret' = [ret EXCEPT ![t] = RetBool(TRUE)]
             ELSE /\ audit_logs' = audit_logs
                  /\ ret' = [ret EXCEPT ![t] = RetBool(FALSE)]
        /\ pc' = [pc EXCEPT ![t] = "finally"]
        /\ UNCHANGED <<call, loc, poolVars, guildTables, history, user_sessions,
                       config_tokens, now, ctorVars, consumed, guild_messages>>

\* the log is kept within the model's bound
CallLogAction(t, u, g, action) ==
    /\ Len(audit_logs) + Cardinality({t2 \in Threads : call[t2].op = "log_action"})
          < MaxLogLen
    /\ Start(t, [op |-> "log_action", user_id |-> u, guild_id |-> g, action |-> action])

(***************************************************************************)
(* DatabaseManager.__new__ and __init__                                    *)
(***************************************************************************)
CallDatabaseManager(t) ==
    /\ pc[t] = "idle"
    /\ pc' = [pc EXCEPT ![t] = "new_check"]
    /\ call' = [call EXCEPT ![t] = [op |-> "DatabaseManager"]]
    /\ UNCHANGED <<ret, loc, poolVars, guildTables, history, rest>>

\* line 13: if cls._instance is None
NewCheck(t) ==
    /\ pc[t] = "new_check"
    /\ pc' = [pc EXCEPT ![t] = IF instance THEN "init_check" ELSE "new_lock"]
    /\ UNCHANGED <<call, ret, loc, poolVars, guildTables, history, rest>>

\* line 14: with cls._lock
NewLock(t) ==
    /\ pc[t] = "new_lock"
    /\ lock = 0
    /\ lock' = t
    /\ pc' = [pc EXCEPT ![t] = "new_check2"]
    /\ UNCHANGED <<call, ret, loc, poolVars, guildTables, history, user_sessions,
                   config_tokens, now, consumed, instance, initialized, pool, pools,
                   bootstraps, schema, records>>

\* line 15: if cls._instance is None, under the lock
NewCheck2(t) ==
    /\ pc[t] = "new_check2"
    /\ IF instance
         THEN /\ pc' = [pc EXCEPT ![t] = "init_check"]
              /\ lock' = 0
         ELSE /\ pc' = [pc EXCEPT ![t] = "new_create"]
              /\ lock' = lock
    /\ UNCHANGED <<call, ret, loc, poolVars, guildTables, history, user_sessions,
                   config_tokens, now, consumed, instance, initialized, pool, pools,
                   bootstraps, schema, records>>

\* line 16: cls._instance = super().__new__(cls)
NewCreate(t) ==
    /\ pc[t] = "new_create"
    /\ instance' = TRUE
    /\ pc' = [pc EXCEPT ![t] = "new_setinit"]
    /\ UNCHANGED <<call, ret, loc, poolVars, guildTables, history, user_sessions,
                   config_tokens, now, consumed, lock, initialized, pool, pools,
                   bootstraps, schema, records>>

\* line 17: cls._instance._initialized = False, and the lock is left
NewSetInitialized(t) ==
    /\ pc[t] = "new_setinit"
    /\ initialized' = "False"
    /\ lock' = 0
    /\ pc' = [pc EXCEPT ![t] = "init_check"]
    /\ UNCHANGED <<call, ret, loc, poolVars, guildTables, history, user_sessions,
                   config_tokens, now, consumed, instance, pool, pools, bootstraps,
                   schema, records>>

\* lines 18 and 21: return cls._instance; __init__ reads self._initialized,
\* which raises AttributeError while line 17 has not run
InitCheck(t) ==
    /\ pc[t] = "init_check"
    /\ CASE initialized = "unset" ->
              /\ pc' = [pc EXCEPT ![t] = "done"]
              /\ ret' = [ret EXCEPT ![t] = Raised]
         [] initialized = "True" ->
              /\ pc' = [pc EXCEPT ![t] = "done"]
              /\ ret' = [ret EXCEPT ![t] = RetManager]
         [] OTHER ->
              /\ pc' = [pc EXCEPT ![t] = "init_set"]
              /\ ret' = ret
    /\ UNCHANGED <<call, loc, poolVars, guildTables, history, rest>>

\* lines 24-31: self._initialized = True; self.connection_params = {...}
InitSet(t) ==
    /\ pc[t] = "init_set"
    /\ initialized' = "True"
    /\ pc' = [pc EXCEPT ![t] = "init_pool"]
    /\ UNCHANGED <<call, ret, loc, poolVars, guildTables, history, user_sessions,
                   config_tokens, now, consumed, instance, lock, pool, pools,
                   bootstraps, schema, records>>

\* line 33: self.pool = psycopg2.pool.SimpleConnectionPool(1, 20, ...), which
\* connects and so may raise
InitPool(t) ==
    /\ pc[t] = "init_pool"
    /\ \/ /\ pools' = pools + 1
          /\ pool' = pools + 1
          /\ pc' = [pc EXCEPT ![t] = "ct_getconn"]
          /\ ret' = ret
       \/ /\ pc' = [pc EXCEPT ![t] = "done"]
          /\ ret' = [ret EXCEPT ![t] = Raised]
          /\ UNCHANGED <<pool, pools>>
    /\ UNCHANGED <<call, loc, poolVars, guildTables, history, user_sessions,
                   config_tokens, now, consumed, instance, lock, initialized,
                   bootstraps, schema, records>>

\* what create_tables_query creates, each IF NOT EXISTS (lines 46-104)
BootstrapRelations ==
    {"guild_messages", "user_sessions", "user_guilds", "bot_guilds", "audit_logs",
     "idx_sessions_user", "idx_guilds_user", "idx_audit_guild"}

\* line 34, line 43: _create_tables_if_not_exists takes a connection of the
\* pool self.pool names
CtGetConnection(t) ==
    /\ pc[t] = "ct_getconn"
    /\ ~GetconnFails
    /\ used' = used \cup {t}
    /\ loc' = [loc EXCEPT ![t].pool = pool]
    /\ bootstraps' = bootstraps + 1
    /\ pc' = [pc EXCEPT ![t] = "ct_execute"]
    /\ UNCHANGED <<call, ret, closed, guildTables, history, user_sessions,
                   config_tokens, now, consumed, instance, lock, initialized, pool,
                   pools, schema, records>>

\* lines 106-110: the CREATE ... IF NOT EXISTS statements and the commit, or
\* an exception that is printed
CtExecute(t) ==
    /\ pc[t] = "ct_execute"
    /\ schema' \in {schema, schema \cup BootstrapRelations}
    /\ pc' = [pc EXCEPT ![t] = "ct_finally"]
    /\ UNCHANGED <<call, ret, loc, poolVars, guildTables, history, user_sessions,
                   config_tokens, now, consumed, instance, lock, initialized, pool,
                   pools, bootstraps, records>>

\* line 112: self._return_connection(conn) gives the connection to the pool
\* self.pool names now; a pool that did not lend it raises PoolError
CtReturnConnection(t) ==
    /\ pc[t] = "ct_finally"
    /\ pc' = [pc EXCEPT ![t] = "done"]
    /\ IF loc[t].pool = pool
         THEN /\ used' = used \ {t}
              /\ ret' = [ret EXCEPT ![t] = RetManager]
         ELSE /\ used' = used
              /\ ret' = [ret EXCEPT ![t] = Raised]
    /\ UNCHANGED <<call, loc, closed, guildTables, history, rest>>

\* the class before the first DatabaseManager(...) call
InitClass ==
    /\ pc = [t \in Threads |-> "idle"]
    /\ call = [t \in Threads |-> NoCall]
    /\ ret = [t \in Threads |-> Pending]
    /\ loc = [t \in Threads |-> NoLocals]
    /\ used = {}
    /\ closed = FALSE
    /\ user_guilds = {}
    /\ bot_guilds = {}
    /\ pendUG = [t \in Threads |-> NoPending]
    /\ pendBG = [t \in Threads |-> NoPending]
    /\ lastSync = [u \in Users |-> NoSync]
    /\ removedSince = [t \in Threads |-> {}]
    /\ user_sessions = {}
    /\ config_tokens = {}
    /\ now = 0
    /\ instance = FALSE
    /\ lock = 0
    /\ initialized = "unset"
    /\ pool = 0
    /\ pools = 0
    /\ bootstraps = 0
    /\ schema = {}
    /\ consumed = [k \in Tokens |-> 0]
    /\ guild_messages = {}
    /\ audit_logs = <<>>

Init ==
    /\ pc = [t \in Threads |-> "idle"]
    /\ call = [t \in Threads |-> NoCall]
    /\ ret = [t \in Threads |-> Pending]
    /\ loc = [t \in Threads |-> NoLocals]
    /\ used = {}
    /\ closed = FALSE
    /\ user_guilds = {}
    /\ bot_guilds = {}
    /\ pendUG = [t \in Threads |-> NoPending]
    /\ pendBG = [t \in Threads |-> NoPending]
    /\ lastSync = [u \in Users |-> NoSync]
    /\ removedSince = [t \in Threads |-> {}]
    /\ user_sessions = {}
    /\ config_tokens = {}
    /\ now = 0
    /\ instance = TRUE
    /\ lock = 0
    /\ initialized = "True"
    /\ pool = 1
    /\ pools = 1
    /\ bootstraps = 1
    /\ schema = BootstrapRelations
    /\ consumed = [k \in Tokens |-> 0]
    /\ guild_messages = {}
    /\ audit_logs = <<>>

(***************************************************************************)
(* SpecBot: the bot's guild presence, kept by the bulk sync and by the     *)
(* single-guild add and remove, from concurrent threads.                   *)
(***************************************************************************)
NextBot ==
    \E t \in Threads :
        \/ \E data \in BotSnapshots : CallSyncBotGuilds(t, data)
        \/ \E g \in Guilds : CallAddBotGuild(t, g, 100)
        \/ \E g \in Guilds : CallRemoveBotGuild(t, g)
        \/ \E g \in Guilds : CallIsBotInGuild(t, g)
        \/ GetConnection(t)
        \/ SbgDelete(t)
        \/ SbgInsert(t)
        \/ SbgCommit(t)
        \/ AbgExecute(t)
        \/ RbgExecute(t)
        \/ IbgSelect(t)
        \/ ReturnConnection(t)
        \/ Finish(t)

SpecBot == Init /\ [][NextBot]_vars


Quiet == \A t \in Threads : pc[t] \in {"idle", "done"}

(* C10: a bulk sync_bot_guilds never resurrects a guild that remove_bot_guild
   removed after the bulk snapshot was taken: once both operations have
   finished, no guild removed since the snapshot has a row in bot_guilds. *)
C10_NoResurrection ==
    \A t \in Threads :
        (call[t].op = "sync_bot_guilds" /\ pc[t] = "done" /\ Quiet)
            => \A g \in removedSince[t] : ~BotGuildExists(g)


(***************************************************************************)
(* SpecSync: one user's guild snapshot, replaced and read by concurrent     *)
(* threads; a statement may fail.                                          *)
(***************************************************************************)
NextSync ==
    \E t \in Threads :
        \/ \E data \in MemberSnapshots : CallSyncUserGuilds(t, 1, data)
        \/ CallGetUserGuilds(t, 1, FALSE)
        \/ GetConnection(t)
        \/ SugDelete(t)
        \/ SugInsert(t)
        \/ SugCommit(t)
        \/ GugSelect(t)
        \/ Fault(t)
        \/ ReturnConnection(t)
        \/ Finish(t)

SpecSync == Init /\ [][NextSync]_vars

(***************************************************************************)
(* SpecPerm: the permission-gated views, one request at a time, over       *)
(* memberships of every role and guilds with and without the bot.          *)
(***************************************************************************)
OthersIdle(t) == \A t2 \in Threads \ {t} : pc[t2] = "idle"

NextPerm ==
    \E t \in Threads :
        \/ \E data \in RoleSnapshots : OthersIdle(t) /\ CallSyncUserGuilds(t, 1, data)
        \/ \E u \in Users \ {1}, data \in OtherSnapshots :
              OthersIdle(t) /\ CallSyncUserGuilds(t, u, data)
        \/ \E g \in Guilds : OthersIdle(t) /\ CallAddBotGuild(t, g, 100)
        \/ \E g \in Guilds : OthersIdle(t) /\ CallRemoveBotGuild(t, g)
        \/ \E u \in Users, m \in BOOLEAN : OthersIdle(t) /\ CallGetUserGuilds(t, u, m)
        \/ \E u \in Users, g \in Guilds :
              OthersIdle(t) /\ CallCheckUserGuildPermission(t, u, g)
        \/ GetConnection(t)
        \/ SugDelete(t)
        \/ SugInsert(t)
        \/ SugCommit(t)
        \/ AbgExecute(t)
        \/ RbgExecute(t)
        \/ GugSelect(t)
        \/ CugpSelect(t)
        \/ ReturnConnection(t)
        \/ Finish(t)

SpecPerm == Init /\ [][NextPerm]_vars

(***************************************************************************)
(* The claims about the Guild Directory.                                   *)
(***************************************************************************)
MembershipsOf(u) == {r \in user_guilds : r.user_id = u}
AdminBitSet(permissions) == (permissions \div ADMINISTRATOR) % 2 = 1

(* C7: sync_user_guilds replaces in full: with one request at a time, the
   stored memberships of a user are exactly the guilds of the last snapshot
   that sync_user_guilds committed for that user (none before the first),
   whatever was synced for other users, and get_user_guilds(u,
   manageable_only=False) returns exactly those guilds, so none after a sync
   of the empty snapshot. *)
C7_FullReplacement ==
    /\ \A u \in Users :
          MembershipsOf(u) = {UserGuildRow(u, e) : e \in lastSync[u].guilds}
    /\ \A t \in Threads :
          (pc[t] = "done" /\ call[t].op = "sync_user_guilds" /\ ReturnedTrue(t))
              => lastSync[call[t].user_id].guilds = Entries(call[t].guilds_data)
    /\ \A t \in Threads :
          (pc[t] = "done" /\ call[t].op = "get_user_guilds"
             /\ ~call[t].manageable_only)
              => /\ ret[t].kind = "list"
                 /\ {v.guild_id : v \in ret[t].val}
                      = {e.id : e \in lastSync[call[t].user_id].guilds}

\* a user whose two-guild snapshot was replaced by the empty one reads nothing,
\* and the other user's snapshot is still stored
C7_Witness ==
    \E t \in Threads, u2 \in Users :
        /\ pc[t] = "done" /\ call[t].op = "get_user_guilds"
        /\ ~call[t].manageable_only
        /\ u2 # call[t].user_id
        /\ lastSync[call[t].user_id].synced
        /\ ret[t].val = {}
        /\ Cardinality(MembershipsOf(u2)) = 2

\* what the claim C8 says get_user_guilds returns
ExpectedGuilds(u, manageable_only) ==
    {[guild_id |-> r.guild_id, guild_name |-> r.guild_name, owner |-> r.owner,
      permissions |-> r.permissions, bot_present |-> BotGuildExists(r.guild_id)] :
        r \in {x \in MembershipsOf(u) :
                 manageable_only =>
                    /\ x.owner \/ AdminBitSet(x.permissions)
                    /\ BotGuildExists(x.guild_id)}}

(* C8: get_user_guilds(u, manageable_only=True) returns exactly the
   memberships of u with owner true or the ADMINISTRATOR bit set whose guild
   has a row in bot_guilds; with manageable_only=False it returns all
   memberships of u, each with bot_present equal to the guild's presence in
   bot_guilds. *)
C8_ManageableGuilds ==
    \A t \in Threads :
        (pc[t] = "done" /\ call[t].op = "get_user_guilds")
            => /\ ret[t].kind = "list"
               /\ ret[t].val = ExpectedGuilds(call[t].user_id, call[t].manageable_only)

\* a manageable-only read that kept one guild and left out another
C8_Witness ==
    \E t \in Threads :
        /\ pc[t] = "done" /\ call[t].op = "get_user_guilds"
        /\ call[t].manageable_only
        /\ Cardinality(ret[t].val) = 1
        /\ Cardinality(MembershipsOf(call[t].user_id)) = 2
        /\ \A r \in MembershipsOf(call[t].user_id) : BotGuildExists(r.guild_id)

C9_Result ==
    \A t \in Threads :
        (pc[t] = "done" /\ call[t].op = "check_user_guild_permission")
            => /\ ret[t].kind = "bool"
               /\ ret[t].val <=>
                    \E r \in user_guilds :
                        /\ r.user_id = call[t].user_id
                        /\ r.guild_id = call[t].guild_id
                        /\ r.owner \/ AdminBitSet(r.permissions)

C9_ReadOnly ==
    \A t \in Threads :
        call[t].op = "check_user_guild_permission"
            => UNCHANGED <<user_guilds, bot_guilds, user_sessions, config_tokens>>

(* C9: check_user_guild_permission(u, g) returns true if and only if a
   membership row (u, g) is stored with owner true or the ADMINISTRATOR bit
   set, false when there is no such row, and no step of it changes the
   stored rows. *)
C9_PermissionCheck == [] C9_Result /\ [][C9_ReadOnly]_vars

\* the check returned true for an administrator who is not the owner
C9_Witness ==
    \E t \in Threads :
        /\ pc[t] = "done" /\ call[t].op = "check_user_guild_permission"
        /\ ReturnedTrue(t)
        /\ \E r \in user_guilds :
              /\ r.user_id = call[t].user_id /\ r.guild_id = call[t].guild_id
              /\ ~r.owner


(***************************************************************************)
(* SpecSession: sessions created, read and deleted by concurrent threads   *)
(* while the clock runs.                                                   *)
(***************************************************************************)
NextSession ==
    \/ Tick
    \/ \E t \in Threads :
        \/ \E sid \in SessionIds, u \in Users, e \in 1..MaxExpiresIn :
              CallCreateSession(t, sid, u, AccessTokenOf(u), e)
        \/ \E sid \in SessionIds : CallGetSession(t, sid)
        \/ \E sid \in SessionIds : CallDeleteSession(t, sid)
        \/ GetConnection(t)
        \/ CsExecute(t)
        \/ GsSelect(t)
        \/ GsUpdate(t)
        \/ DsExecute(t)
        \/ ReturnConnection(t)
        \/ Finish(t)

SpecSession == Init /\ [][NextSession]_vars


\* the rows of session s that are unexpired at the server's time
ValidRows(sid) == {r \in user_sessions : r.session_id = sid /\ r.expires_at > now}

C5_Step(t) ==
    LET sid == call[t].session_id
    IN  /\ (pc[t] = "gs_select" /\ pc'[t] = "gs_update")
            => ValidRows(sid) # {} /\ loc'[t].result = ValidRows(sid)
        /\ (pc[t] = "gs_select" /\ pc'[t] # "gs_select" /\ ValidRows(sid) = {})
            => pc'[t] = "finally" /\ ret'[t].kind = "None"
        /\ (ret'[t].kind = "session" /\ ret[t].kind # "session")
            => /\ pc[t] = "gs_update"
               /\ \E r \in loc[t].result :
                     /\ r.session_id = sid
                     /\ ret'[t].val.user_id = r.user_id
                     /\ ret'[t].val.access_token = r.access_token
                     /\ ret'[t].val.expires_at = r.expires_at

(* C5: get_session(s) returns the session's data only if its SELECT found a
   row for s with expires_at > now, and what it returns is that row's data;
   when the row is expired or absent it returns None, the same value in both
   cases. *)
C5_ExpiredIsAbsent == [][\A t \in Threads : C5_Step(t)]_vars

\* get_session returned None for a session whose row is stored but had expired
\* when the SELECT ran
C5_Witness ==
    \E t \in Threads :
        /\ pc[t] = "done" /\ call[t].op = "get_session"
        /\ ret[t].kind = "None"
        /\ \E r \in user_sessions :
              r.session_id = call[t].session_id /\ r.expires_at <= loc[t].txtime

(* C6: last_activity of a session never decreases over any interleaving of
   get_session calls: while get_session is the only operation running, every
   step leaves each stored session's last_activity at a value greater than
   or equal to the one it had. *)
C6_ActivityNeverDecreases ==
    [][(\A t \in Threads : call[t].op \in {"none", "get_session"})
          => \A r \in user_sessions : \A r2 \in user_sessions' :
                r2.session_id = r.session_id
                    => r2.last_activity >= r.last_activity]_vars

(***************************************************************************)
(* SpecPool: operations against a pool that may be closed while they run;  *)
(* a statement may fail.                                                   *)
(***************************************************************************)
NextPool ==
    \/ Close
    \/ \E t \in Threads :
        \/ \E sid \in SessionIds, e \in ExpiresIn :
              CallCreateSession(t, sid, 1, AccessTokenOf(1), e)
        \/ \E sid \in SessionIds : CallGetSession(t, sid)
        \/ \E g \in Guilds : CallIsBotInGuild(t, g)
        \/ GetConnection(t)
        \/ CsExecute(t)
        \/ GsSelect(t)
        \/ GsUpdate(t)
        \/ IbgSelect(t)
        \/ Fault(t)
        \/ ReturnConnection(t)
        \/ Finish(t)

SpecPool == Init /\ [][NextPool]_vars

(* C3: every storage operation returns its failure value instead of letting
   an exception reach the caller: no call ends with an exception raised. *)
C3_NothingPropagates == \A t \in Threads : ret[t].kind # "raised"

(* C4: every operation that borrowed a connection returns it: when no
   operation is in flight no connection is borrowed, and the borrowed
   connections never exceed the pool's maximum. *)
C4_ConnectionsReturned ==
    /\ Quiet => used = {}
    /\ Cardinality(used) <= MaxConn


(***************************************************************************)
(* SpecToken: config tokens issued, checked and consumed by concurrent     *)
(* threads while the clock runs.                                           *)
(***************************************************************************)
NextToken ==
    \/ Tick
    \/ \E t \in Threads :
        \/ \E k \in Tokens, g \in Guilds, ttl \in 1..MaxExpiresIn : CallIssue(t, k, g, ttl)
        \/ \E k \in Tokens, g \in Guilds : CallValidateAndConsume(t, k, g)
        \/ \E k \in Tokens, g \in Guilds : CallCheckValid(t, k, g)
        \/ GetConnection(t)
        \/ ItExecute(t)
        \/ VcExecute(t)
        \/ CvSelect(t)
        \/ ReturnConnection(t)
        \/ Finish(t)

SpecToken == Init /\ [][NextToken]_vars

(* C1: for any token, across any number of validateAndConsume calls,
   sequential or concurrent, at most one returns true, and every call that
   starts after the first success returns false. *)
C1_SingleUse ==
    /\ \A k \in Tokens : consumed[k] <= 1
    /\ \A t \in Threads :
          (pc[t] = "done" /\ call[t].op = "validateAndConsume"
             /\ call[t].after_success)
              => ReturnedFalse(t)

\* a token was consumed, and a later call for it, with the right guild and
\* before the token expired, returned false
C1_Witness ==
    \E t \in Threads :
        /\ pc[t] = "done" /\ call[t].op = "validateAndConsume"
        /\ call[t].after_success
        /\ ReturnedFalse(t)
        /\ consumed[call[t].token] = 1
        /\ \E r \in config_tokens :
              /\ r.token = call[t].token /\ r.guild_id = call[t].guild_id
              /\ r.expires_at > now

(***************************************************************************)
(* SpecCtor: threads construct DatabaseManager for the first time.         *)
(***************************************************************************)
NextCtor ==
    \E t \in Threads :
        \/ CallDatabaseManager(t)
        \/ NewCheck(t)
        \/ NewLock(t)
        \/ NewCheck2(t)
        \/ NewCreate(t)
        \/ NewSetInitialized(t)
        \/ InitCheck(t)
        \/ InitSet(t)
        \/ InitPool(t)
        \/ CtGetConnection(t)
        \/ CtExecute(t)
        \/ CtReturnConnection(t)
        \/ Finish(t)

SpecCtor == InitClass /\ [][NextCtor]_vars

(* C2: only one connection pool is ever constructed in a process: however
   many callers invoke the constructor concurrently on first use, the pool
   constructor and the schema bootstrap run at most once. *)
C2_OnePool == pools <= 1 /\ bootstraps <= 1

(* C11: when two sync_user_guilds calls for the same user run concurrently,
   the last commit wins: once the calls have finished, the stored memberships
   of the user are exactly the snapshot of the call that committed last. *)
C11_LastCommitWins ==
    \A u \in Users :
        (Quiet /\ lastSync[u].synced)
            => MembershipsOf(u) = {UserGuildRow(u, e) : e \in lastSync[u].guilds}

\* the stored rows of a token
TokenRows(token) == {r \in config_tokens : r.token = token}

C12_Step(t) ==
    LET c == call[t]
    IN  (/\ pc[t] = "vc_execute" /\ pc'[t] # "vc_execute"
         /\ \A r \in TokenRows(c.token) : now > r.expires_at)
            => ReturnedFalse(t)' /\ config_tokens' = config_tokens

C12_UsedOnlyUnexpired ==
    \A r \in config_tokens :
        (~r.used /\ \E r2 \in config_tokens' : r2.token = r.token /\ r2.used)
            => r.expires_at > now

(* C12: validateAndConsume(t, g) returns false, and leaves the token unused,
   whenever now > expires_at of t, even if t was never consumed; a token moves
   from unused to used only while it is unexpired. *)
C12_ExpiredIsRefused ==
    [][(\A t \in Threads : C12_Step(t)) /\ C12_UsedOnlyUnexpired]_vars

\* validateAndConsume returned false for a stored token of the right guild that
\* nobody had consumed and that had expired when the UPDATE ran
C12_Witness ==
    \E t \in Threads :
        /\ pc[t] = "done" /\ call[t].op = "validateAndConsume"
        /\ ReturnedFalse(t)
        /\ consumed[call[t].token] = 0
        /\ \E r \in TokenRows(call[t].token) :
              /\ r.guild_id = call[t].guild_id
              /\ ~r.used
              /\ r.expires_at < loc[t].txtime

C13_Step(t) ==
    LET c == call[t]
    IN  /\ (pc[t] = "cv_select" /\ pc'[t] # "cv_select")
            => ret'[t] = RetBool(\E r \in TokenRows(c.token) :
                                    /\ r.guild_id = c.guild_id
                                    /\ ~r.used
                                    /\ r.expires_at > now)
        /\ (c.op = "checkValid" /\ pc'[t] # pc[t])
            => UNCHANGED <<config_tokens, consumed>>

(* C13: checkValid(t, g) is a read-only predicate: it returns true if and only
   if a row matching t and g exists that is unexpired and unused, and no step
   of a checkValid call changes any token row (used and used_at included);
   so it is false after a successful validateAndConsume. *)
C13_CheckValidReadOnly == [][\A t \in Threads : C13_Step(t)]_vars

\* checkValid returned false for an unexpired token of the right guild that a
\* validateAndConsume had consumed
C13_Witness ==
    \E t \in Threads :
        /\ pc[t] = "done" /\ call[t].op = "checkValid"
        /\ ReturnedFalse(t)
        /\ consumed[call[t].token] = 1
        /\ \E r \in TokenRows(call[t].token) :
              r.guild_id = call[t].guild_id /\ r.used /\ r.expires_at > now

BotGuildRowsOf(g) == {r \in bot_guilds : r.guild_id = g}

C14_Step(t) ==
    LET c == call[t]
        returnsTrue == ret[t].kind = "pending" /\ ReturnedTrue(t)'
    IN  /\ (c.op = "add_bot_guild" /\ returnsTrue)
            => /\ BotGuildRowsOf(c.guild_id)'
                    = {BotGuildRow(c.guild_id, c.guild_name, c.member_count)}
               /\ \A g \in Guilds \ {c.guild_id} : UNCHANGED BotGuildRowsOf(g)
        /\ (c.op = "remove_bot_guild" /\ returnsTrue)
            => /\ BotGuildRowsOf(c.guild_id)' = {}
               /\ \A g \in Guilds \ {c.guild_id} : UNCHANGED BotGuildRowsOf(g)
        /\ (c.op = "sync_bot_guilds" /\ returnsTrue)
            => \A g \in Guilds : BotGuildExists(g)' <=> g \in GuildIds(c.guilds_data)
        /\ (c.op = "is_bot_in_guild" /\ ret[t].kind = "pending" /\ ret'[t].kind # "pending")
            => ret'[t] = RetBool(BotGuildExists(c.guild_id))
        /\ (bot_guilds' # bot_guilds /\ pc'[t] # pc[t])
            => c.op \in {"add_bot_guild", "remove_bot_guild", "sync_bot_guilds"}
                 /\ returnsTrue

(* C14: is_bot_in_guild(g) is an existence check that follows the last
   committed write: when add_bot_guild(g, ...) returns True exactly one row
   of g is stored, when remove_bot_guild(g) returns True none is, when
   sync_bot_guilds(G) returns True exactly the guilds of G have a row, no
   other step changes bot_guilds, and is_bot_in_guild(g) returns whether a
   row of g is stored. *)
C14_FollowsLastWrite == [][\A t \in Threads : C14_Step(t)]_vars

(***************************************************************************)
(* SpecRecord: message records and the audit log, written and read by      *)
(* concurrent threads.                                                     *)
(***************************************************************************)
NextRecord ==
    \E t \in Threads :
        \/ \E g \in Guilds, m \in Messages : CallInsertOrUpdateMessage(t, g, m)
        \/ \E g \in Guilds : CallGetTestMessage(t, g)
        \/ \E a \in Actions : CallLogAction(t, 1, 1, a)
        \/ GetConnection(t)
        \/ IumExecute(t)
        \/ GtmSelect(t)
        \/ LaExecute(t)
        \/ ReturnConnection(t)
        \/ Finish(t)

SpecRecord == Init /\ [][NextRecord]_vars

MessagesOf(g) == {r \in guild_messages : r.guild_id = g}

\* thread t's call returns True in this step
ReturnsTrue(t) == ret[t].kind = "pending" /\ ReturnedTrue(t)'

\* what the claim C15 says of every step but the value a write stores
C15_Frame(t) ==
    LET c == call[t]
    IN  /\ (c.op = "insert_or_update_message" /\ ReturnsTrue(t))
            => \A g \in Guilds \ {c.guild_id} : UNCHANGED MessagesOf(g)
        /\ (c.op = "get_test_message" /\ ret[t].kind = "pending"
              /\ ret'[t].kind # "pending")
            => ret'[t] = IF MessagesOf(c.guild_id) = {} THEN RetNone
                         ELSE RetMessage((CHOOSE r \in MessagesOf(c.guild_id) : TRUE)
                                            .test_message)
        /\ (guild_messages' # guild_messages /\ pc'[t] # pc[t])
            => c.op = "insert_or_update_message" /\ ReturnsTrue(t)

C15_OneRowPerGuild == \A g \in Guilds : Cardinality(MessagesOf(g)) <= 1

\* the write of message m stores m itself
C15_StoresGiven(t) ==
    LET c == call[t]
    IN  (c.op = "insert_or_update_message" /\ ReturnsTrue(t))
            => MessagesOf(c.guild_id)' = {MessageRow(c.guild_id, c.test_message)}

(* C15: message record round trip: when insert_or_update_message(g, m)
   returns True the one row of g holds m, replacing what was stored, so that
   get_test_message(g) returns m; there is at most one row per guild;
   get_test_message of a guild never written returns None; a write for one
   guild leaves every other guild's message as it was, and nothing else
   changes a message. *)
C15_RoundTrip ==
    /\ [] C15_OneRowPerGuild
    /\ [][\A t \in Threads : C15_Frame(t) /\ C15_StoresGiven(t)]_vars

\* the write of message m stores m if m has at most 255 characters, and else
\* m without the trailing spaces beyond the 255th character
C15_StoresFitted(t) ==
    LET c == call[t]
        m == c.test_message
    IN  (c.op = "insert_or_update_message" /\ ReturnsTrue(t))
            => /\ m.len <= VarcharLen
               /\ MessagesOf(c.guild_id)'
                    = {MessageRow(c.guild_id,
                                  IF m.len + m.pad <= VarcharLen THEN m
                                  ELSE Text(m.text, m.len, VarcharLen - m.len))}

(* C15 as amended: the round trip returns m for every m of at most 255
   characters; for a longer m whose characters beyond the 255th are all
   spaces, insert_or_update_message returns True and get_test_message
   returns m cut to 255 characters.  The rest of the claim stands. *)
C15_RoundTripFitted ==
    /\ [] C15_OneRowPerGuild
    /\ [][\A t \in Threads : C15_Frame(t) /\ C15_StoresFitted(t)]_vars

\* get_test_message returned "world" for a guild for which "hello" was written
\* as well, while the other guild had no message or another one
C15_Witness ==
    \E t \in Threads, t2 \in Threads :
        /\ pc[t] = "done" /\ call[t].op = "get_test_message"
        /\ ret[t] = RetMessage(Text("world", 5, 0))
        /\ pc[t2] = "done" /\ call[t2].op = "insert_or_update_message"
        /\ call[t2].guild_id = call[t].guild_id
        /\ call[t2].test_message = Text("hello", 5, 0)
        /\ ReturnedTrue(t2)
        /\ \E g \in Guilds \ {call[t].guild_id} :
              \A r \in MessagesOf(g) : r.test_message # Text("world", 5, 0)

IsPrefix(a, b) == Len(a) <= Len(b) /\ SubSeq(b, 1, Len(a)) = a

C16_Step(t) ==
    LET c == call[t]
    IN  /\ (c.op = "log_action" /\ ReturnsTrue(t))
            => audit_logs' = Append(audit_logs,
                                    AuditEntry(c.user_id, c.guild_id, c.action))
        /\ (audit_logs' # audit_logs /\ pc'[t] # pc[t])
            => c.op = "log_action" /\ ReturnsTrue(t)

(* C16: the audit log is append-only: each log_action that returns True adds
   exactly one entry, its own, at the end; no other step changes the log; and
   in every step the log before is a prefix of the log after. *)
C16_AppendOnly ==
    [][IsPrefix(audit_logs, audit_logs') /\ \A t \in Threads : C16_Step(t)]_vars

\* two entries have been logged, the last by a call that has just returned
\* True, while another thread has written a message record
C16_Witness ==
    \E t \in Threads, t2 \in Threads :
        /\ Len(audit_logs) = 2
        /\ pc[t] = "done" /\ call[t].op = "log_action" /\ ReturnedTrue(t)
        /\ audit_logs[2] = AuditEntry(call[t].user_id, call[t].guild_id, call[t].action)
        /\ pc[t2] = "done" /\ call[t2].op = "insert_or_update_message"
        /\ ReturnedTrue(t2)

C17_Step(t) ==
    /\ (user_guilds' # user_guilds /\ pc'[t] # pc[t])
          => /\ call[t].op = "sync_user_guilds" /\ ReturnsTrue(t)
             /\ MembershipsOf(call[t].user_id)'
                  = (MembershipsOf(call[t].user_id) \ pendUG[t].del)
                      \cup {UserGuildRow(call[t].user_id, e) :
                              e \in Entries(call[t].guilds_data)}
    /\ (call[t].op = "sync_user_guilds" /\ ret[t].kind = "pending"
          /\ ReturnedFalse(t)')
          => user_guilds' = user_guilds

\* a connection that is back in the pool carries no uncommitted work
C17_NothingLeftOpen ==
    \A t \in Threads : pc[t] \in {"idle", "getconn", "done"} => pendUG[t] = NoPending

(* C17: sync_user_guilds is all-or-nothing: the stored memberships change
   only in the step in which a sync_user_guilds call commits and returns True,
   and then to that call's whole snapshot; a call that returns False (a
   repeated guild id, an entry without a name, a failed statement) has changed
   nothing, and its uncommitted delete and inserts are discarded when its
   connection goes back to the pool, so that no later operation on that
   connection commits them. *)
C17_AllOrNothing ==
    /\ [] C17_NothingLeftOpen
    /\ [][\A t \in Threads : C17_Step(t)]_vars

\* a sync whose snapshot lists a guild twice has failed after its delete and
\* one insert, and the memberships stored before it are still there
C17_Witness ==
    \E t \in Threads :
        /\ pc[t] = "done" /\ call[t].op = "sync_user_guilds"
        /\ ReturnedFalse(t)
        /\ Len(call[t].guilds_data) = 2
        /\ call[t].guilds_data[1].id = call[t].guilds_data[2].id
        /\ loc[t].i = 2
        /\ MembershipsOf(call[t].user_id) # {}
        /\ \A r \in MembershipsOf(call[t].user_id) : r.guild_id # call[t].guilds_data[1].id

(***************************************************************************)
(* SpecRead: one user's guild snapshot replaced by sync_user_guilds while  *)
(* get_user_guilds reads it.                                               *)
(***************************************************************************)
NextRead ==
    \E t \in Threads :
        \/ \E data \in MemberSnapshots : CallSyncUserGuilds(t, 1, data)
        \/ CallGetUserGuilds(t, 1, FALSE)
        \/ GetConnection(t)
        \/ SugDelete(t)
        \/ SugInsert(t)
        \/ SugCommit(t)
        \/ GugSelect(t)
        \/ ReturnConnection(t)
        \/ Finish(t)

SpecRead == Init /\ [][NextRead]_vars

\* thread t runs the SELECT of get_user_guilds in this step
Reads(t) == pc[t] = "gug_select" /\ pc'[t] = "finally"

\* thread t2 has deleted user u's non-empty previous snapshot and has not yet
\* committed its non-empty snapshot
InSyncWindow(t2, u) ==
    /\ call[t2].op = "sync_user_guilds" /\ call[t2].user_id = u
    /\ pc[t2] \in {"sug_insert", "sug_commit"}
    /\ pendUG[t2].del # {}

GuildIdsOf(rows) == {r.guild_id : r \in rows}

(* C18: a get_user_guilds(u) that runs concurrently with sync_user_guilds(u,
   G) observes an empty or partial set: when its SELECT runs after the sync
   has deleted a non-empty previous snapshot and before the sync has committed
   a non-empty G, its result is neither the previous snapshot nor G. *)
C18_PartialObserved ==
    [][\A t \in Threads : \A t2 \in Threads \ {t} :
          (Reads(t) /\ InSyncWindow(t2, call[t].user_id))
              => /\ GuildIdsOf(ret'[t].val) # GuildIdsOf(MembershipsOf(call[t].user_id))
                 /\ GuildIdsOf(ret'[t].val) # GuildIds(call[t2].guilds_data)]_vars

(* C18 as amended: a get_user_guilds(u) that runs concurrently with
   sync_user_guilds(u, G) never observes the rows of the open transaction:
   its result is exactly the committed memberships of u at the time of its
   SELECT, which is the previous snapshot until the sync commits and G from
   then on. *)
C18_CommittedObserved ==
    [][\A t \in Threads :
          Reads(t) => /\ ret'[t].kind = "list"
                      /\ GuildIdsOf(ret'[t].val)
                           = GuildIdsOf(MembershipsOf(call[t].user_id))]_vars

\* a reader has run its SELECT while another thread had deleted the previous
\* snapshot and inserted the first of two guilds, and it got the previous
\* snapshot, which is not the new one
C18_Witness ==
    \E t \in Threads :
        /\ pc[t] = "done" /\ call[t].op = "get_user_guilds"
        /\ \E r \in loc[t].open : r \in user_guilds
        /\ \E r \in loc[t].open : r \notin user_guilds
        /\ ret[t].val # {}
        /\ GuildIdsOf(ret[t].val) = GuildIdsOf({r \in loc[t].open : r \in user_guilds})
        /\ GuildIdsOf(ret[t].val) # GuildIdsOf({r \in loc[t].open : r \notin user_guilds})

\* the relations and indexes of the persisted data model (section 6 of the
\* specification)
RequiredRelations ==
    {"guild_messages", "config_tokens", "user_sessions", "user_guilds", "bot_guilds",
     "audit_logs", "index config_tokens(guild_id, used, expires_at)",
     "idx_sessions_user", "idx_guilds_user", "idx_audit_guild"}

C19_Step(t) ==
    (pc[t] = "ct_execute" /\ pc'[t] = "ct_finally")
        => /\ schema' # schema => RequiredRelations \subseteq schema'
           /\ RequiredRelations \subseteq schema => schema' = schema

(* C19: the schema bootstrap of manager initialization ensures that every
   required relation and index exists afterwards (guild_messages,
   config_tokens, user_sessions, user_guilds, bot_guilds, audit_logs and
   their indexes): a bootstrap that creates anything leaves all of them
   existing, and a bootstrap of a store that has them all changes nothing. *)
C19_BootstrapComplete == [][\A t \in Threads : C19_Step(t)]_vars

SessionsOf(sid) == {r \in user_sessions : r.session_id = sid}

C20_Step(t) ==
    LET c == call[t]
    IN  (c.op = "create_session" /\ ret[t].kind = "pending"
           /\ ret'[t] = RetSessionId(c.session_id))
            => /\ SessionsOf(c.session_id)' # {}
               /\ \A r \in SessionsOf(c.session_id)' :
                     /\ r.user_id = c.user_id
                     /\ r.access_token = c.access_token

(* C20: whenever create_session(user_data, token_data) returns a session id
   s, the stored session s belongs to the supplied user: the row a following
   get_session(s) reads has the user of user_data and the supplied
   access_token, also when the generated id collides with a stored session
   (the upsert path). *)
C20_SessionOfCaller == [][\A t \in Threads : C20_Step(t)]_vars

\* a schema bootstrap that was started is running or has finished
BootstrapsRunning == Cardinality({t \in Threads : pc[t] \in {"ct_execute", "ct_finally"}})
BootstrapFinished == bootstraps > BootstrapsRunning

\* the manager the constructor returned: self.pool is set (what _get_connection
\* reads, line 37) and _create_tables_if_not_exists has run to its end
ManagerReady == pool # 0 /\ BootstrapFinished

(* C21: any caller to whom the DatabaseManager constructor has returned holds
   a ready manager: its pool attribute is set and the schema bootstrap has
   finished, also when another thread is still inside first-time
   initialization and also after an earlier initialization attempt failed
   while constructing the pool. *)
C21_ReadyManager ==
    \A t \in Threads :
        (call[t].op = "DatabaseManager" /\ ret[t] = RetManager) => ManagerReady

=============================================================================
